---- MODULE Spec2Model ----
(***************************************************************************)
(* VoiceScribe bot (src/bot.py): start-up checks of main(), the handler    *)
(* registrations of main() with the dispatch rule of the bot framework     *)
(* (first matching handler of the group runs, updates are processed one    *)
(* after the other), and handle_voice step by step, every platform call,   *)
(* remote call and file operation either returning or raising.             *)
(*                                                                         *)
(* Texts are sequences of tokens.  An optional value is a sequence of      *)
(* length at most one: None is << >>, a present value x is << x >>.        *)
(***************************************************************************)
EXTENDS Integers, Sequences, FiniteSets, TLC

\* ---------------------------------------------------------------- bounds

\* Number of updates the serving loop receives in a run.
MaxEvents == 2

\* Number of chats updates come from.
MaxChat == 1

\* Longest file name of the extension-inference specification.
MaxNameLen == 3

\* ------------------------------------------------------- optional values

None == << >>

Some(x) == << x >>

IsNone(o) == o = << >>

Get(o) == o[1]

\* ------------------------------------------------------ string operators

\* s.startswith(prefix)
StartsWith(s, prefix) ==
    /\ Len(s) >= Len(prefix)
    /\ SubSeq(s, 1, Len(prefix)) = prefix

\* needle in hay
Contains(hay, needle) ==
    \E i \in 0..(Len(hay) - Len(needle)) :
        SubSeq(hay, i + 1, i + Len(needle)) = needle

\* Index of the first sep in s, 0 when there is none.
Find(s, sep) ==
    IF \E i \in 1..Len(s) : s[i] = sep
    THEN CHOOSE i \in 1..Len(s) :
             /\ s[i] = sep
             /\ \A j \in 1..(i - 1) : s[j] # sep
    ELSE 0

\* s.split(sep): the pieces between the separators, empty pieces kept.
RECURSIVE Split(_, _)
Split(s, sep) ==
    IF Find(s, sep) = 0
    THEN << s >>
    ELSE << SubSeq(s, 1, Find(s, sep) - 1) >>
             \o Split(SubSeq(s, Find(s, sep) + 1, Len(s)), sep)

\* xs[-1]
Last(xs) == xs[Len(xs)]

Whitespace == {" ", "\n", "\t"}

\* s.strip()
RECURSIVE Strip(_)
Strip(s) ==
    IF s = << >> THEN s
    ELSE IF s[1] \in Whitespace THEN Strip(Tail(s))
    ELSE IF s[Len(s)] \in Whitespace THEN Strip(SubSeq(s, 1, Len(s) - 1))
    ELSE s

\* ------------------------------------------------------------ the texts

WELCOME_TEXT == << "Zdravstvujte! Ya VoiceScribe ... Gotov k rabote." >>

HELP_TEXT == << "Ya delayu dve veshchi ... pokazhu na praktike." >>

UNSUPPORTED_TEXT ==
    << "Ya rabotayu tol'ko s audiofajlami formatov .mp3, .ogg i .wav. ",
       "Pozhalujsta, otprav'te golosovoe soobshchenie ili audiozapis'." >>

PROCESSING_TEXT == << "Fajl poluchen. Obrabatyvayu..." >>

NOT_RECOGNIZED_TEXT ==
    << "Ne udalos' raspoznat' rech'. Vozmozhno, zapis' slishkom tihaya ili soderzhit tol'ko shum." >>

GENERIC_ERROR_TEXT ==
    << "Proizoshla oshibka pri obrabotke audio. Poprobujte eshchyo raz." >>

LOW_QUALITY_TEXT ==
    << "Kachestvo zapisi nizkoe, ne udalos' obrabotat'. ",
       "Poprobujte zapisat' soobshchenie v bolee tihom meste." >>

OTHER_TEXT ==
    << "Ya specializiruyus' na rasshifrovke audio i vydelenii tezisov. ",
       "Otprav'te golosovoe soobshchenie ili audiofajl." >>

\* The f-string of result_message.
ResultMessage(transcript_text, theses) ==
    << "Transkripciya:", "\n" >> \o transcript_text
        \o << "\n", "\n", "Tezisy:", "\n" >> \o theses
        \o << "\n", "\n", "Nuzhno chto-to eshchyo?" >>

\* The substring looked for in str(e).
QUALITY_SIGNATURE == << "Could", "not", "process", "audio" >>

AUDIO_PREFIX == << "audio", "/" >>

\* ------------------------------------------------ inputs of the handlers

\* str(e) of the exceptions the calls raise.
ErrTexts ==
    { << "Could", "not", "process", "audio" >>,
      << "400", ":", "Could", "not", "process", "audio", "file" >>,
      << "Could", "not", "process", "request" >>,
      << "Timed", "out" >> }

\* transcription.text
Transcripts ==
    { << >>,
      << " ", "\n" >>,
      << "h", "i" >>,
      << " ", "h", "i", " " >> }

\* response.choices[0].message.content
ThesesTexts == { << "1.", "hi" >> }

\* Declared file names of audio and document attachments.
FileNames ==
    { None,
      Some(<< "c", "l", "i", "p", ".", "W", "A", "V" >>),
      Some(<< "a", ".", "b", ".", "m", "p", "3" >>),
      Some(<< "r", "e", "c" >>) }

MimeTypes ==
    { None,
      Some(<< "audio", "/", "mpeg" >>),
      Some(<< "text", "/", "plain" >>) }

Commands == {"start", "help", "settings"}

Chats == 1..MaxChat

Secrets == {"unset", "empty", "set"}

\* An Update's message.  kind names the one thing the message carries.
Message(kind, chat, id, cmd, name, mime) ==
    [kind |-> kind, chat_id |-> chat, message_id |-> id,
     command |-> cmd, file_name |-> name, mime_type |-> mime]

NoMessage == Message("none", 0, 0, "", None, None)

\* The messages chat c can send as its message number id.
Messages(c, id) ==
    {Message("command", c, id, cmd, None, None) : cmd \in Commands}
        \cup {Message("text", c, id, "", None, None)}
        \cup {Message("voice", c, id, "", None, Some(<< "audio", "/", "ogg" >>))}
        \cup {Message("audio", c, id, "", n, Some(<< "audio", "/", "mpeg" >>)) :
                 n \in FileNames}
        \cup {Message("document", c, id, "", nm[1], nm[2]) :
                 nm \in FileNames \X MimeTypes}

\* ---------------------------------------------------------------- state

VARIABLES
    token,        \* TELEGRAM_BOT_TOKEN in the environment
    api_key,      \* OPENAI_API_KEY in the environment
    pc,           \* the process: "import", "main", "polling", "exited"
    exit_error,   \* the exception that ended the process, "" if none
    application,  \* TRUE once Application.builder()...build() has run
    next_id,      \* per chat, the message_id of its next message
    message,      \* update.message of the update being processed
    callback,     \* the handler the dispatcher runs for it, "none" if none
    hpc,          \* where that handler is
    locals,       \* handle_voice's local variables
    files,        \* the files in the working directory
    outbox,       \* texts of the messages sent for this update
    status_text,  \* content of processing_message, None before it exists
    edits,        \* texts processing_message was edited to
    trace         \* the calls made for this update, with their outcome

vars == << token, api_key, pc, exit_error, application, next_id, message,
           callback, hpc, locals, files, outbox, status_text, edits, trace >>

config == << token, api_key >>

process == << pc, exit_error, application >>

NoLocals ==
    [file_extension |-> None, file_path |-> None, transcript_text |-> None,
     theses |-> None, e |-> None]

\* One call: what was called, the text it was given (<< >> when it takes
\* none) and whether it returned (TRUE) or raised (FALSE).
Call(op, arg, ok) == [op |-> op, arg |-> arg, ok |-> ok]

Init ==
    /\ token \in Secrets
    /\ api_key \in Secrets
    /\ pc = "import"
    /\ exit_error = ""
    /\ application = FALSE
    /\ next_id = [c \in Chats |-> 1]
    /\ message = NoMessage
    /\ callback = "none"
    /\ hpc = "idle"
    /\ locals = NoLocals
    /\ files = {}
    /\ outbox = << >>
    /\ status_text = None
    /\ edits = << >>
    /\ trace = << >>

\* -------------------------------------------------------------- start-up

\* os.getenv(name) is falsy: the variable is unset or empty.
Missing(secret) == secret \in {"unset", "empty"}

\* Module level: OpenAI(api_key=os.getenv("OPENAI_API_KEY")) raises when it
\* is given no key at all.
LoadModule ==
    /\ pc = "import"
    /\ IF api_key = "unset"
       THEN /\ pc' = "exited"
            /\ exit_error' = "OpenAIError"
       ELSE /\ pc' = "main"
            /\ exit_error' = exit_error
    /\ UNCHANGED << config, application, next_id, message, callback, hpc,
                    locals, files, outbox, status_text, edits, trace >>

\* main() with the check of OPENAI_API_KEY left out.
ConfigErrorTokenOnly(tok, key) == Missing(tok)

\* The two checks of main().
ConfigError(tok, key) == Missing(tok) \/ Missing(key)

\* main(): the checks, then build, add_handler x5, run_polling.
Main ==
    /\ pc = "main"
    /\ IF ConfigError(token, api_key)
       THEN /\ pc' = "exited"
            /\ exit_error' = "ValueError"
            /\ application' = application
       ELSE /\ pc' = "polling"
            /\ exit_error' = exit_error
            /\ application' = TRUE
    /\ UNCHANGED << config, next_id, message, callback, hpc, locals, files,
                    outbox, status_text, edits, trace >>

\* ------------------------------------------------------------ the router

\* The filters of the registrations.
Matches(filter, m) ==
    CASE filter = "command:start" -> m.kind = "command" /\ m.command = "start"
      [] filter = "command:help" -> m.kind = "command" /\ m.command = "help"
      [] filter = "VOICE|AUDIO" -> m.kind \in {"voice", "audio"}
      [] filter = "Document.AUDIO" ->
             /\ m.kind = "document"
             /\ ~IsNone(m.mime_type)
             /\ StartsWith(Get(m.mime_type), AUDIO_PREFIX)
      [] filter = "TEXT&~COMMAND" -> m.kind = "text"
      [] OTHER -> FALSE

\* application.add_handler(...), in order, all in the default group.
Handlers ==
    << [filter |-> "command:start", callback |-> "start"],
       [filter |-> "command:help", callback |-> "help_command"],
       [filter |-> "VOICE|AUDIO", callback |-> "handle_voice"],
       [filter |-> "Document.AUDIO", callback |-> "handle_voice"],
       [filter |-> "TEXT&~COMMAND", callback |-> "handle_other"] >>

\* The callback of the first registration whose filter matches, "none" when
\* no filter does.
Route(m) ==
    IF \E i \in 1..Len(Handlers) : Matches(Handlers[i].filter, m)
    THEN Handlers[CHOOSE i \in 1..Len(Handlers) :
                      /\ Matches(Handlers[i].filter, m)
                      /\ \A j \in 1..(i - 1) : ~Matches(Handlers[j].filter, m)
                 ].callback
    ELSE "none"

Ended == hpc \in {"idle", "done", "raised", "unhandled"}

RECURSIVE SumIds(_)
SumIds(T) ==
    IF T = {} THEN 0
    ELSE LET c == CHOOSE x \in T : TRUE
         IN (next_id[c] - 1) + SumIds(T \ {c})

\* Updates received so far.
EventsReceived == SumIds(Chats)

\* The serving loop takes the next update once the previous one is over and
\* starts the handler the registrations select.
ReceiveUpdate ==
    /\ pc = "polling"
    /\ Ended
    /\ EventsReceived < MaxEvents
    /\ \E c \in Chats : \E m \in Messages(c, next_id[c]) :
        /\ message' = m
        /\ next_id' = [next_id EXCEPT ![c] = @ + 1]
        /\ callback' = Route(m)
        /\ hpc' = IF Route(m) = "none" THEN "unhandled" ELSE "entry"
    /\ locals' = NoLocals
    /\ outbox' = << >>
    /\ status_text' = None
    /\ edits' = << >>
    /\ trace' = << >>
    /\ UNCHANGED << config, process, files >>

\* ------------------------------------------------- the one-reply handlers

\* await update.message.reply_text(text) as the handler's only statement:
\* the message is sent and the handler returns, or the call raises.
ReplyAndReturn(name, text) ==
    /\ pc = "polling"
    /\ callback = name
    /\ hpc = "entry"
    /\ \E ok \in BOOLEAN :
        /\ trace' = Append(trace, Call("reply_text", text, ok))
        /\ outbox' = IF ok THEN Append(outbox, text) ELSE outbox
        /\ hpc' = IF ok THEN "done" ELSE "raised"
    /\ UNCHANGED << config, process, next_id, message, callback, locals,
                    files, status_text, edits >>

start == ReplyAndReturn("start", WELCOME_TEXT)

help_command == ReplyAndReturn("help_command", HELP_TEXT)

\* handle_other sending the rejection text of handle_voice.
handle_other_shared_text == ReplyAndReturn("handle_other", UNSUPPORTED_TEXT)

handle_other == ReplyAndReturn("handle_other", OTHER_TEXT)

\* ----------------------------------------------------------- handle_voice

OGG == << "o", "g", "g" >>

MP3 == << "m", "p", "3" >>

\* The extension taken as split('.')[1], the piece after the first dot.
SuffixOrFirst(name, fallback) ==
    IF ~IsNone(name) /\ Get(name) # << >>
    THEN LET parts == Split(Get(name), ".")
         IN IF Len(parts) >= 2 THEN parts[2] ELSE parts[1]
    ELSE fallback

\* name.split('.')[-1] if name else fallback
SuffixOr(name, fallback) ==
    IF ~IsNone(name) /\ Get(name) # << >>
    THEN Last(Split(Get(name), "."))
    ELSE fallback

\* file_extension of the three attachment branches.
FileExtension(m) ==
    CASE m.kind = "voice" -> OGG
      [] m.kind = "audio" -> SuffixOr(m.file_name, MP3)
      [] OTHER -> SuffixOr(m.file_name, OGG)

\* The branch of the if/elif chain the message takes: an attachment whose
\* file is looked up, or the rejection.
IsAttachment(m) ==
    \/ m.kind = "voice"
    \/ m.kind = "audio"
    \/ /\ m.kind = "document"
       /\ StartsWith(IF IsNone(m.mime_type) THEN << >> ELSE Get(m.mime_type),
                     AUDIO_PREFIX)

Digit(d) == CASE d = 0 -> "0" [] d = 1 -> "1" [] d = 2 -> "2" [] d = 3 -> "3"
              [] d = 4 -> "4" [] d = 5 -> "5" [] d = 6 -> "6" [] d = 7 -> "7"
              [] d = 8 -> "8" [] OTHER -> "9"

\* str(n) of an integer.
RECURSIVE Str(_)
Str(n) ==
    IF n < 0 THEN << "-" >> \o Str(0 - n)
    ELSE IF n < 10 THEN << Digit(n) >>
    ELSE Str(n \div 10) \o << Digit(n % 10) >>

\* The path without the separator between the two identifiers.
FilePathNoSeparator(m, ext) ==
    << "v", "o", "i", "c", "e", "_" >> \o Str(m.chat_id)
        \o Str(m.message_id) \o << "." >> \o ext

\* f"voice_{chat_id}_{message_id}.{file_extension}"
FilePath(m, ext) ==
    << "v", "o", "i", "c", "e", "_" >> \o Str(m.chat_id) \o << "_" >>
        \o Str(m.message_id) \o << "." >> \o ext

InVoice(at) ==
    /\ pc = "polling"
    /\ callback = "handle_voice"
    /\ hpc = at

\* The if/elif chain: get_file and the extension, or the rejection reply.
\* get_file and reply_text are outside the try block.
handle_voice_classify ==
    /\ InVoice("entry")
    /\ \E ok \in BOOLEAN :
        IF IsAttachment(message)
        THEN /\ trace' = Append(trace, Call("get_file", << >>, ok))
             /\ locals' = IF ok
                          THEN [locals EXCEPT
                                   !.file_extension = Some(FileExtension(message))]
                          ELSE locals
             /\ hpc' = IF ok THEN "ack" ELSE "raised"
             /\ outbox' = outbox
        ELSE /\ trace' = Append(trace, Call("reply_text", UNSUPPORTED_TEXT, ok))
             /\ outbox' = IF ok THEN Append(outbox, UNSUPPORTED_TEXT) ELSE outbox
             /\ hpc' = IF ok THEN "done" ELSE "raised"
             /\ locals' = locals
    /\ UNCHANGED << config, process, next_id, message, callback, files,
                    status_text, edits >>

\* processing_message = await update.message.reply_text(...), before the try.
handle_voice_acknowledge ==
    /\ InVoice("ack")
    /\ \E ok \in BOOLEAN :
        /\ trace' = Append(trace, Call("reply_text", PROCESSING_TEXT, ok))
        /\ outbox' = IF ok THEN Append(outbox, PROCESSING_TEXT) ELSE outbox
        /\ status_text' = IF ok THEN Some(PROCESSING_TEXT) ELSE status_text
        /\ hpc' = IF ok THEN "download" ELSE "raised"
    /\ UNCHANGED << config, process, next_id, message, callback, locals,
                    files, edits >>

\* A statement that raised being run again instead of leaving the try block.
RaiseRetry(err) ==
    /\ hpc' = hpc
    /\ locals' = [locals EXCEPT !.e = Some(err)]

\* Where a statement of the try block goes when it raises e.
Raise(err) ==
    /\ hpc' = "except"
    /\ locals' = [locals EXCEPT !.e = Some(err)]

\* file_path = ...; await file.download_to_drive(file_path).  A download that
\* raises may or may not have created the file.
handle_voice_download ==
    /\ InVoice("download")
    /\ LET path == FilePath(message, Get(locals.file_extension)) IN
       \/ /\ trace' = Append(trace, Call("download", << >>, TRUE))
          /\ files' = files \cup {path}
          /\ locals' = [locals EXCEPT !.file_path = Some(path)]
          /\ hpc' = "transcribe"
       \/ \E err \in ErrTexts : \E written \in BOOLEAN :
          /\ trace' = Append(trace, Call("download", << >>, FALSE))
          /\ files' = IF written THEN files \cup {path} ELSE files
          /\ locals' = [locals EXCEPT !.file_path = Some(path), !.e = Some(err)]
          /\ hpc' = "except"
    /\ UNCHANGED << config, process, next_id, message, callback, outbox,
                    status_text, edits >>

\* The test without the strip(): only the empty transcript is blank.
IsBlankNoStrip(transcript_text) == transcript_text = << >>

\* not transcript_text or transcript_text.strip() == ""
IsBlank(transcript_text) ==
    \/ transcript_text = << >>
    \/ Strip(transcript_text) = << >>

\* open(file_path, "rb") and client.audio.transcriptions.create(...), then the
\* test of transcription.text.
handle_voice_transcribe ==
    /\ InVoice("transcribe")
    /\ \/ /\ Get(locals.file_path) \in files
          /\ \E t \in Transcripts :
              /\ trace' = Append(trace, Call("transcribe", << >>, TRUE))
              /\ locals' = [locals EXCEPT !.transcript_text = Some(t)]
              /\ hpc' = IF IsBlank(t) THEN "blank_edit" ELSE "summarize"
       \/ \E err \in ErrTexts :
          /\ trace' = Append(trace, Call("transcribe", << >>, FALSE))
          /\ Raise(err)
    /\ UNCHANGED << config, process, next_id, message, callback, files,
                    outbox, status_text, edits >>

\* await processing_message.edit_text(text) inside the try block.
EditInTry(text, then) ==
    \/ /\ trace' = Append(trace, Call("edit_text", text, TRUE))
       /\ status_text' = Some(text)
       /\ edits' = Append(edits, text)
       /\ hpc' = then
       /\ locals' = locals
    \/ \E err \in ErrTexts :
       /\ trace' = Append(trace, Call("edit_text", text, FALSE))
       /\ Raise(err)
       /\ UNCHANGED << status_text, edits >>

\* The clean-up removing every file of the working directory.
RemoveInTryAll(then) ==
    \/ /\ Get(locals.file_path) \in files
       /\ trace' = Append(trace, Call("remove", << >>, TRUE))
       /\ files' = {}
       /\ hpc' = then
       /\ locals' = locals
    \/ \E err \in ErrTexts :
       /\ trace' = Append(trace, Call("remove", << >>, FALSE))
       /\ Raise(err)
       /\ files' = files

\* os.remove(file_path) inside the try block.
RemoveInTry(then) ==
    \/ /\ Get(locals.file_path) \in files
       /\ trace' = Append(trace, Call("remove", << >>, TRUE))
       /\ files' = files \ {Get(locals.file_path)}
       /\ hpc' = then
       /\ locals' = locals
    \/ \E err \in ErrTexts :
       /\ trace' = Append(trace, Call("remove", << >>, FALSE))
       /\ Raise(err)
       /\ files' = files

\* The empty-transcript branch going to the clean-up without its edit.
handle_voice_not_recognized_unedited ==
    /\ InVoice("blank_edit")
    /\ hpc' = "blank_remove"
    /\ UNCHANGED << config, process, next_id, message, callback, locals,
                    files, outbox, status_text, edits, trace >>

\* The empty-transcript branch: the edit ...
handle_voice_not_recognized ==
    /\ InVoice("blank_edit")
    /\ EditInTry(NOT_RECOGNIZED_TEXT, "blank_remove")
    /\ UNCHANGED << config, process, next_id, message, callback, files, outbox >>

\* ... then os.remove(file_path) and return.
handle_voice_not_recognized_remove ==
    /\ InVoice("blank_remove")
    /\ RemoveInTry("done")
    /\ UNCHANGED << config, process, next_id, message, callback, outbox,
                    status_text, edits >>

\* client.chat.completions.create(...) and response.choices[0].message.content
handle_voice_summarize ==
    /\ InVoice("summarize")
    /\ \/ \E th \in ThesesTexts :
          /\ trace' = Append(trace, Call("summarize", << >>, TRUE))
          /\ locals' = [locals EXCEPT !.theses = Some(th)]
          /\ hpc' = "result_edit"
       \/ \E err \in ErrTexts :
          /\ trace' = Append(trace, Call("summarize", << >>, FALSE))
          /\ Raise(err)
    /\ UNCHANGED << config, process, next_id, message, callback, files,
                    outbox, status_text, edits >>

\* await processing_message.edit_text(result_message)
handle_voice_result ==
    /\ InVoice("result_edit")
    /\ EditInTry(ResultMessage(Get(locals.transcript_text), Get(locals.theses)),
                 "result_remove")
    /\ UNCHANGED << config, process, next_id, message, callback, files, outbox >>

\* os.remove(file_path), the last statement of the try block.
handle_voice_result_remove ==
    /\ InVoice("result_remove")
    /\ RemoveInTry("done")
    /\ UNCHANGED << config, process, next_id, message, callback, outbox,
                    status_text, edits >>

\* The classification by equality with the signature instead of containment.
ErrorMessageExact(err) ==
    IF err = QUALITY_SIGNATURE THEN LOW_QUALITY_TEXT
    ELSE GENERIC_ERROR_TEXT

\* error_message of the except block, from str(e).
ErrorMessage(err) ==
    IF Contains(err, QUALITY_SIGNATURE) THEN LOW_QUALITY_TEXT
    ELSE GENERIC_ERROR_TEXT

\* 'file_path' in locals() and os.path.exists(file_path)
MustRemove(loc, fs) ==
    /\ ~IsNone(loc.file_path)
    /\ Get(loc.file_path) \in fs

\* except Exception as e: the edit to the error message, which may raise out
\* of the handler, then the test for the file.
handle_voice_except ==
    /\ InVoice("except")
    /\ \E ok \in BOOLEAN :
        /\ trace' = Append(trace, Call("edit_text", ErrorMessage(Get(locals.e)), ok))
        /\ status_text' = IF ok THEN Some(ErrorMessage(Get(locals.e)))
                          ELSE status_text
        /\ edits' = IF ok THEN Append(edits, ErrorMessage(Get(locals.e)))
                    ELSE edits
        /\ hpc' = IF ~ok THEN "raised"
                  ELSE IF MustRemove(locals, files) THEN "except_remove"
                  ELSE "done"
    /\ UNCHANGED << config, process, next_id, message, callback, locals,
                    files, outbox >>

\* os.remove(file_path) of the except block; it may raise out of the handler.
handle_voice_except_remove ==
    /\ InVoice("except_remove")
    /\ \E ok \in BOOLEAN :
        /\ trace' = Append(trace, Call("remove", << >>, ok))
        /\ files' = IF ok THEN files \ {Get(locals.file_path)} ELSE files
        /\ hpc' = IF ok THEN "done" ELSE "raised"
    /\ UNCHANGED << config, process, next_id, message, callback, locals,
                    outbox, status_text, edits >>

\* ------------------------------------------------------- the specification

Next ==
    \/ LoadModule
    \/ Main
    \/ ReceiveUpdate
    \/ start
    \/ help_command
    \/ handle_other
    \/ handle_voice_classify
    \/ handle_voice_acknowledge
    \/ handle_voice_download
    \/ handle_voice_transcribe
    \/ handle_voice_not_recognized
    \/ handle_voice_not_recognized_remove
    \/ handle_voice_summarize
    \/ handle_voice_result
    \/ handle_voice_result_remove
    \/ handle_voice_except
    \/ handle_voice_except_remove

Spec == Init /\ [][Next]_vars

\* ----------------------------------- extension inference on all file names

NameAlphabet == {"a", "W", "."}

\* The strings over NameAlphabet of length at most n.
RECURSIVE NamesUpTo(_)
NamesUpTo(n) ==
    IF n = 0 THEN {<< >>}
    ELSE NamesUpTo(n - 1)
             \cup {Append(s, ch) : s \in NamesUpTo(n - 1), ch \in NameAlphabet}

ExtFileNames == FileNames \cup {Some(s) : s \in NamesUpTo(MaxNameLen)}

\* The attachments the registrations route to handle_voice, with every file
\* name of ExtFileNames.
ExtMessages(c, id) ==
    {Message("voice", c, id, "", None, Some(<< "audio", "/", "ogg" >>))}
        \cup {Message("audio", c, id, "", n, Some(<< "audio", "/", "mpeg" >>)) :
                 n \in ExtFileNames}
        \cup {Message("document", c, id, "", n, Some(<< "audio", "/", "x-wav" >>)) :
                 n \in ExtFileNames}

\* The serving loop has just dispatched one attachment to handle_voice.
InitExt ==
    /\ token = "set"
    /\ api_key = "set"
    /\ pc = "polling"
    /\ exit_error = ""
    /\ application = TRUE
    /\ \E c \in Chats : \E m \in ExtMessages(c, 1) :
        /\ message = m
        /\ next_id = [x \in Chats |-> IF x = c THEN 2 ELSE 1]
    /\ callback = Route(message)
    /\ hpc = "entry"
    /\ locals = NoLocals
    /\ files = {}
    /\ outbox = << >>
    /\ status_text = None
    /\ edits = << >>
    /\ trace = << >>

NextExt ==
    \/ handle_voice_classify
    \/ handle_voice_acknowledge

SpecExt == InitExt /\ [][NextExt]_vars

\* ------------------------------- the handlers called on any one message

\* chat_id is negative for groups; identifiers of one and of two digits.
DirectChats == {-1, 1, 11}

DirectIds == {1, 11}

\* The messages a handler is called with.
DirectMessages ==
    UNION {
        {Message("voice", c, id, "", None, Some(<< "audio", "/", "ogg" >>)),
         Message("audio", c, id, "", None, Some(<< "audio", "/", "mpeg" >>)),
         Message("document", c, id, "", None, Some(<< "audio", "/", "mpeg" >>)),
         Message("document", c, id, "", None, Some(<< "text", "/", "plain" >>)),
         Message("text", c, id, "", None, None),
         Message("command", c, id, "start", None, None),
         Message("command", c, id, "help", None, None)}
        : <<c, id>> \in DirectChats \X DirectIds }

\* A callback and the message it is awaited with: handle_voice with any
\* message, the other handlers with the messages they are registered for.
DirectCalls ==
    {<<"handle_voice", m>> : m \in DirectMessages}
        \cup {<<"handle_other", m>> : m \in {x \in DirectMessages : x.kind = "text"}}
        \cup {<<"start", m>> :
                 m \in {x \in DirectMessages : x.command = "start"}}
        \cup {<<"help_command", m>> :
                 m \in {x \in DirectMessages : x.command = "help"}}

SameEvent(a, b) == a.chat_id = b.chat_id /\ a.message_id = b.message_id

\* The temporary files of the other audio events.
PathsOfOthers(m) ==
    {FilePath(o, FileExtension(o)) :
        o \in {x \in DirectMessages : IsAttachment(x) /\ ~SameEvent(x, m)}}

\* One handler is entered with one message while the working directory holds
\* nothing or the temporary file of another audio event.
InitDirect ==
    /\ token = "set"
    /\ api_key = "set"
    /\ pc = "polling"
    /\ exit_error = ""
    /\ application = TRUE
    /\ next_id = [c \in Chats |-> 1]
    /\ \E call \in DirectCalls :
        /\ callback = call[1]
        /\ message = call[2]
    /\ hpc = "entry"
    /\ locals = NoLocals
    /\ files \in {{}} \cup {{f} : f \in PathsOfOthers(message)}
    /\ outbox = << >>
    /\ status_text = None
    /\ edits = << >>
    /\ trace = << >>

NextDirect ==
    \/ start
    \/ help_command
    \/ handle_other
    \/ handle_voice_classify
    \/ handle_voice_acknowledge
    \/ handle_voice_download
    \/ handle_voice_transcribe
    \/ handle_voice_not_recognized
    \/ handle_voice_not_recognized_remove
    \/ handle_voice_summarize
    \/ handle_voice_result
    \/ handle_voice_result_remove
    \/ handle_voice_except
    \/ handle_voice_except_remove

SpecDirect == InitDirect /\ [][NextDirect]_vars

\* Every call a handler awaits or blocks on returns or raises in the end: a
\* handler that can take a step takes one.
SpecFair == SpecDirect /\ WF_vars(NextDirect)

\* ------------------------------------------------------------- the claims

\* The update being processed went to handle_voice as an attachment.
AudioEvent == callback = "handle_voice" /\ IsAttachment(message)

\* The handler invocation is over: it returned or it raised.
Returned == hpc = "done"

Raised == hpc = "raised"

\* The processing of the update is over, whatever became of it.
EventOver == hpc \in {"done", "raised", "unhandled"}

\* The calls of the invocation with the given name.
CallsOf(op) == {i \in 1..Len(trace) : trace[i].op = op}

FailureTexts == {GENERIC_ERROR_TEXT, LOW_QUALITY_TEXT}

\* C1: when an invocation of handle_voice has ended (returned or raised), the
\* temporary file it named voice_<chat>_<message>.<ext> does not exist,
\* whichever of its steps failed.  A removal that itself raised leaves the file
\* to no fault of the handler, so only invocations in which every os.remove
\* that was called succeeded are held to the claim.
C1_TempFileGoneAtEveryExit ==
    (/\ AudioEvent
     /\ Returned \/ Raised
     /\ ~IsNone(locals.file_path)
     /\ \A i \in CallsOf("remove") : trace[i].ok)
        => Get(locals.file_path) \notin files

\* C2: the status reply of an audio event is edited at most once.
C2_StatusEditedAtMostOnce ==
    AudioEvent => Len(edits) <= 1

\* C3: an event routed to handle_voice with a voice, audio or audio/ document
\* attachment has exactly one status message sent for it when the invocation
\* has ended, whichever call failed.  The send is counted when it is made, so
\* that a send the platform refused is not held against the handler.
C3_ExactlyOneStatusMessage ==
    (AudioEvent /\ (Returned \/ Raised))
        => Cardinality(CallsOf("reply_text")) = 1

\* C4: when the transcript is empty or whitespace only, the invocation ends
\* with the status reply holding the 'speech not recognized' text, without a
\* call of the summarization client and without a failure message shown.
\* Only invocations in which the platform accepted the 'not recognized' edit
\* are held to the claim.
C4_BlankTranscriptIsNotAFailure ==
    (/\ AudioEvent
     /\ Returned \/ Raised
     /\ ~IsNone(locals.transcript_text)
     /\ \A i \in 1..Len(Get(locals.transcript_text)) :
            Get(locals.transcript_text)[i] \in {" ", "\n", "\t"}
     /\ \E i \in 1..Len(trace) :
            trace[i] = Call("edit_text", NOT_RECOGNIZED_TEXT, TRUE))
        => /\ CallsOf("summarize") = {}
           /\ status_text = Some(NOT_RECOGNIZED_TEXT)
           /\ \A i \in 1..Len(edits) : edits[i] \notin FailureTexts

\* The document's MIME type does not begin with audio/.
NonAudioDocument(m) ==
    /\ m.kind = "document"
    /\ \/ IsNone(m.mime_type)
       \/ Len(Get(m.mime_type)) < 2
       \/ Get(m.mime_type)[1] # "audio"
       \/ Get(m.mime_type)[2] # "/"

\* C5: for a document whose MIME type does not begin with audio/, the
\* processing of the update sends the unsupported-input message and makes no
\* file lookup, download, transcription or summarization.
C5_NonAudioDocumentRejected ==
    (NonAudioDocument(message) /\ EventOver)
        => /\ outbox = << UNSUPPORTED_TEXT >>
           /\ \A i \in 1..Len(trace) : trace[i].op = "reply_text"

\* The signature occurs somewhere in the error text.
HasSignature(err) ==
    \E k \in 1..Len(err) :
        /\ k + 3 <= Len(err)
        /\ err[k] = "Could"
        /\ err[k + 1] = "not"
        /\ err[k + 2] = "process"
        /\ err[k + 3] = "audio"

\* C6: the edit made after a step of the pipeline raised carries the
\* low-audio-quality message if and only if the error text contains the
\* signature, and the generic failure message otherwise.
C6_ErrorClassification ==
    /\ LOW_QUALITY_TEXT # GENERIC_ERROR_TEXT
    /\ \A i \in 2..Len(trace) :
        (callback = "handle_voice" /\ trace[i].op = "edit_text" /\ ~trace[i - 1].ok)
            => /\ ~IsNone(locals.e)
               /\ (trace[i].arg = LOW_QUALITY_TEXT) <=> HasSignature(Get(locals.e))
               /\ (trace[i].arg = GENERIC_ERROR_TEXT) <=> ~HasSignature(Get(locals.e))
               /\ trace[i].ok => status_text = Some(trace[i].arg)

\* A transcription that raised an error with the signature inside a longer
\* text, and the status reply edited to the low-quality message.
C6_Witness ==
    /\ Len(trace) >= 2
    /\ trace[Len(trace) - 1] = Call("transcribe", << >>, FALSE)
    /\ trace[Len(trace)] = Call("edit_text", LOW_QUALITY_TEXT, TRUE)
    /\ locals.e = Some(<< "400", ":", "Could", "not", "process", "audio", "file" >>)
    /\ status_text = Some(LOW_QUALITY_TEXT)

\* C7: with either secret absent the process never builds the application,
\* never polls and never runs a handler; once it is past main() it has exited
\* with an error.
C7_MissingSecretIsFatal ==
    (token \in {"unset", "empty"} \/ api_key \in {"unset", "empty"})
        => /\ pc \in {"import", "main", "exited"}
           /\ pc = "exited" => exit_error \in {"OpenAIError", "ValueError"}
           /\ application = FALSE
           /\ callback = "none"
           /\ hpc = "idle"
           /\ trace = << >>

\* main() has refused to start for want of the remote-service key alone.
C7_Witness ==
    /\ token = "set"
    /\ api_key = "empty"
    /\ pc = "exited"
    /\ exit_error = "ValueError"
    /\ application = FALSE

\* C8: every update has exactly one handler run for it and exactly one
\* message sent for it by the time its processing is over.  The send is
\* counted when it is made, delivered or not.
C8_OneHandlerOneMessage ==
    (message.kind # "none" /\ EventOver)
        => /\ callback # "none"
           /\ Cardinality(CallsOf("reply_text")) = 1

\* The piece of s after its last dot, s itself when it has no dot.
RefLastSuffix(s) ==
    LET dots == {i \in 1..Len(s) : s[i] = "."}
    IN IF dots = {} THEN s
       ELSE SubSeq(s, (CHOOSE d \in dots : \A j \in dots : j <= d) + 1, Len(s))

\* The reference of the claim.
RefExtension(m) ==
    IF m.kind = "voice" THEN << "o", "g", "g" >>
    ELSE IF m.file_name # None /\ m.file_name # Some(<< >>)
         THEN RefLastSuffix(m.file_name[1])
    ELSE IF m.kind = "audio" THEN << "m", "p", "3" >>
    ELSE << "o", "g", "g" >>

\* C9: the extension handle_voice infers is ogg for a voice attachment, the
\* last dot-separated piece of the declared file name (case kept) for an audio
\* or document attachment that has one, and the fallback of the attachment
\* kind otherwise.
C9_ExtensionInference ==
    (callback = "handle_voice" /\ hpc # "entry" /\ CallsOf("get_file") # {}
        /\ trace[1].ok)
        => locals.file_extension = Some(RefExtension(message))

\* clip.WAV gives WAV.
C9_Witness ==
    /\ message.kind = "audio"
    /\ message.file_name = Some(<< "c", "l", "i", "p", ".", "W", "A", "V" >>)
    /\ hpc = "ack"
    /\ locals.file_extension = Some(<< "W", "A", "V" >>)

\* Every character of the text is whitespace.
AllWhitespace(t) == \A i \in 1..Len(t) : t[i] \in {" ", "\n", "\t"}

IsResultEdit(c) ==
    /\ c.op = "edit_text"
    /\ c.arg \notin {NOT_RECOGNIZED_TEXT, GENERIC_ERROR_TEXT, LOW_QUALITY_TEXT}

\* C10: in one invocation the download directly follows the successful
\* acknowledgement, the transcription the successful download, the
\* summarization the successful transcription of a non-blank transcript, and
\* the edit to the result the successful summarization.
C10_StagesInOrder ==
    callback = "handle_voice" =>
        \A i \in 1..Len(trace) :
            /\ trace[i].op = "download" =>
                   /\ i > 1
                   /\ trace[i - 1] = Call("reply_text", PROCESSING_TEXT, TRUE)
            /\ trace[i].op = "transcribe" =>
                   /\ i > 1
                   /\ trace[i - 1] = Call("download", << >>, TRUE)
            /\ trace[i].op = "summarize" =>
                   /\ i > 1
                   /\ trace[i - 1] = Call("transcribe", << >>, TRUE)
                   /\ ~IsNone(locals.transcript_text)
                   /\ ~AllWhitespace(Get(locals.transcript_text))
            /\ IsResultEdit(trace[i]) =>
                   /\ i > 1
                   /\ trace[i - 1] = Call("summarize", << >>, TRUE)
            /\ trace[i].op \in {"download", "transcribe", "summarize"} =>
                   \E j \in 1..(i - 1) :
                       trace[j] = Call("reply_text", PROCESSING_TEXT, TRUE)

\* All five stages happened, in order, and the result is in the status reply.
C10_Witness ==
    /\ callback = "handle_voice"
    /\ Len(trace) = 6
    /\ trace[2] = Call("reply_text", PROCESSING_TEXT, TRUE)
    /\ trace[3] = Call("download", << >>, TRUE)
    /\ trace[4] = Call("transcribe", << >>, TRUE)
    /\ trace[5] = Call("summarize", << >>, TRUE)
    /\ IsResultEdit(trace[6])
    /\ trace[6].ok
    /\ locals.transcript_text = Some(<< " ", "h", "i", " " >>)

\* C11: in one invocation the download, the transcription call and the
\* summarization call are each issued at most once, whatever failed.
C11_NoRetry ==
    callback = "handle_voice" =>
        \A op \in {"download", "transcribe", "summarize"} :
            Cardinality(CallsOf(op)) <= 1

\* An invocation that is over after its summarization raised: each of the
\* three calls was made exactly once.
C11_Witness ==
    /\ callback = "handle_voice"
    /\ hpc \in {"done", "raised"}
    /\ \E i \in 1..Len(trace) : trace[i] = Call("summarize", << >>, FALSE)
    /\ \A op \in {"download", "transcribe", "summarize"} :
           Cardinality(CallsOf(op)) = 1

\* The acknowledgement of the invocation was sent.
Acknowledged ==
    \E i \in 1..Len(trace) : trace[i] = Call("reply_text", PROCESSING_TEXT, TRUE)

\* C12: after the acknowledgement no failure of a step of the pipeline leaves
\* handle_voice as an exception: the invocation does not end by raising.
C12_FailuresContained ==
    (AudioEvent /\ Acknowledged) => ~Raised

\* The three steps succeeded, the transcript is not blank and the platform
\* accepted the edit to the composed result.
ResultDelivered ==
    /\ \E i \in 1..Len(trace) : trace[i] = Call("download", << >>, TRUE)
    /\ \E i \in 1..Len(trace) : trace[i] = Call("transcribe", << >>, TRUE)
    /\ \E i \in 1..Len(trace) : trace[i] = Call("summarize", << >>, TRUE)
    /\ \E i \in 1..Len(trace) : IsResultEdit(trace[i]) /\ trace[i].ok

\* C13: when download, transcription and summarization succeeded, the status
\* reply ends holding the composed message of transcript and theses and never
\* a failure message.  Only invocations in which the platform accepted the
\* edit to the composed message are held to the claim.
C13_ResultIsFinalContent ==
    (AudioEvent /\ (Returned \/ Raised) /\ ResultDelivered)
        => /\ status_text = Some(ResultMessage(Get(locals.transcript_text),
                                               Get(locals.theses)))
           /\ status_text \notin {Some(GENERIC_ERROR_TEXT), Some(LOW_QUALITY_TEXT)}

\* C14: the temporary file path of an invocation differs from the path of
\* every audio event with another (chat identifier, message identifier) pair,
\* so the file of another event on disk is never the one this invocation
\* writes, reads or removes.
C14_DistinctPaths ==
    (callback = "handle_voice" /\ ~IsNone(locals.file_path))
        => /\ Get(locals.file_path) \notin PathsOfOthers(message)
           /\ hpc = "transcribe"
                  => files \ PathsOfOthers(message) = {Get(locals.file_path)}

\* The invocation for chat 1, message 11 has downloaded its file next to the
\* file of chat 11, message 1: two files.
C14_Witness ==
    /\ callback = "handle_voice"
    /\ message.chat_id = 1
    /\ message.message_id = 11
    /\ hpc = "transcribe"
    /\ Cardinality(files) = 2
    /\ \E f \in files :
           StartsWith(f, << "v", "o", "i", "c", "e", "_", "1", "1", "_", "1", "." >>)

\* C15 as claimed: the reply to a generic text message is the rejection text
\* sent for a document that is not audio.
C15_SameRejectionText ==
    (callback = "handle_other" /\ message.kind = "text" /\ hpc = "done")
        => outbox = << UNSUPPORTED_TEXT >>

\* handle_voice returned from one of its two rejection branches.
Rejected ==
    /\ callback = "handle_voice"
    /\ ~IsAttachment(message)
    /\ hpc = "done"

\* C15 as amended: handle_voice rejects a non-audio document and a message
\* without attachment with one and the same text, and the reply handle_other
\* sends to a text message is another text.
C15_RejectionTexts ==
    /\ Rejected => outbox = << UNSUPPORTED_TEXT >>
    /\ (callback = "handle_other" /\ hpc = "done")
           => /\ outbox = << OTHER_TEXT >>
              /\ outbox # << UNSUPPORTED_TEXT >>

\* handle_voice has rejected a text/plain document.
C15_Witness ==
    /\ Rejected
    /\ message.kind = "document"
    /\ message.mime_type = Some(<< "text", "/", "plain" >>)
    /\ outbox = << UNSUPPORTED_TEXT >>

\* The path has the form voice_<chat>_<message>.<ext> of the message.
OwnPathOf(path, m) ==
    StartsWith(path, << "v", "o", "i", "c", "e", "_" >> \o Str(m.chat_id)
                         \o << "_" >> \o Str(m.message_id) \o << "." >>)

\* C17: a step of a handler creates or removes no file but the one at the
\* invocation's own path voice_<chat>_<message>.<ext>; the rejection branches
\* of handle_voice and the handlers start, help_command and handle_other
\* change no file and call nothing but reply_text; no step changes the
\* environment, the process state or the update being processed.
C17_FrameOfTheHandlers ==
    [][/\ files' # files
           => /\ callback = "handle_voice"
              /\ IsAttachment(message)
              /\ ~IsNone(locals'.file_path)
              /\ (files' \ files) \cup (files \ files') = {Get(locals'.file_path)}
              /\ OwnPathOf(Get(locals'.file_path), message)
       /\ (callback # "handle_voice" \/ ~IsAttachment(message))
           => /\ files' = files
              /\ locals' = locals
              /\ \A i \in 1..Len(trace') : trace'[i].op = "reply_text"
       /\ UNCHANGED << token, api_key, pc, exit_error, application, next_id,
                       message, callback >>
      ]_vars

\* An invocation has removed its own file and returned while the file of
\* another audio event is still in the working directory.
C17_Witness ==
    /\ callback = "handle_voice"
    /\ hpc = "done"
    /\ \E i \in 1..Len(trace) : trace[i] = Call("remove", << >>, TRUE)
    /\ Cardinality(files) = 1
    /\ files \subseteq PathsOfOthers(message)
    /\ Get(locals.file_path) \notin files

\* The texts an invocation leaves in the status reply when it is through.
IsTerminalText(t) ==
    \/ t \in {NOT_RECOGNIZED_TEXT, GENERIC_ERROR_TEXT, LOW_QUALITY_TEXT}
    \/ /\ ~IsNone(locals.transcript_text)
       /\ ~IsNone(locals.theses)
       /\ t = ResultMessage(Get(locals.transcript_text), Get(locals.theses))

\* C16 as claimed: an acknowledged invocation that has terminated has left one
\* of the three terminal texts in the status reply, not the 'processing' text.
C16_TerminalTextAtTermination ==
    (AudioEvent /\ Acknowledged /\ (Returned \/ Raised))
        => /\ ~IsNone(status_text)
           /\ IsTerminalText(Get(status_text))
           /\ status_text # Some(PROCESSING_TEXT)

\* C16 as amended: every acknowledged invocation terminates; when it is over
\* the status reply holds a terminal text, unless the invocation ended by the
\* except block's edit to the failure message raising.
C16_TerminatesWithTerminalText ==
    /\ (AudioEvent /\ Acknowledged) ~> (AudioEvent /\ (Returned \/ Raised))
    /\ [](AudioEvent /\ Returned
              => ~IsNone(status_text) /\ IsTerminalText(Get(status_text)))
    /\ [](AudioEvent /\ Acknowledged /\ Raised
              => \/ ~IsNone(status_text) /\ IsTerminalText(Get(status_text))
                 \/ /\ trace[Len(trace)].op = "edit_text"
                    /\ trace[Len(trace)].arg \in FailureTexts
                    /\ ~trace[Len(trace)].ok)

\* An invocation whose summarization raised has returned with the generic
\* failure text in the status reply.
C16_Witness ==
    /\ AudioEvent
    /\ Returned
    /\ \E i \in 1..Len(trace) : trace[i] = Call("summarize", << >>, FALSE)
    /\ status_text = Some(GENERIC_ERROR_TEXT)

====
